---- MODULE Spec2Model ----
(***************************************************************************)
(* The artifact retrieval pipeline of ipfs-artifact-fetcher: the           *)
(* verified-fetch ArtifactDownloader (cache-first lookup, lazy transport   *)
(* initialization, fetch under withRetry, decompression, store write) and  *)
(* the retry policy of retry-utils.ts.                                     *)
(*                                                                         *)
(* Strings are sequences of tokens, "/" being the path separator token, so *)
(* that basename, includes and the status regex are computed, not assumed. *)
(* Every await of the code is a step boundary: the steps of concurrent     *)
(* fetchFromIPFS activations interleave exactly at the awaits.             *)
(***************************************************************************)
EXTENDS Integers, Sequences, FiniteSets, TLC

\* ------------------------------------------------------------------ bounds
\* options.maxRetries, when given, is at most MaxRetriesCfg
MaxRetriesCfg == 1
\* events per run beyond the first call: further public calls, stop() calls
\* and failing answers of the transport
MaxEvents == 1
\* public calls of a run whose activations never overlap
MaxCalls == 2
\* stop() calls of such a run
MaxStops == 2
\* request attempts of other calls on the same plain-HTTP downloader
MaxOtherAttempts == 2

\* ------------------------------------------------------- program constants
DefaultMaxRetries == 5
DefaultBaseDelayMs == 1000
RETRYABLE_STATUS_CODES == {429, 503, 504}
RAILGUN_ARTIFACTS_CID_ROOT == "QmUsmnK4PFc7zDp2cmC4wBZxYLjNyRgWfs5GNcJJ2uLcpU"
PPOI_ARTIFACTS_CID == "QmZrP9zaZw2LwErT2yA6VpMWm65UdToQiKj4DtStVsUJHr"
ARTIFACT_VARIANT_STRING_PPOI_PREFIX == "POI"

VKEY == "vkey"
ZKEY == "zkey"
WASM == "wasm"
DAT == "dat"
ArtifactName == {ZKEY, WASM, VKEY, DAT}

\* ----------------------------------------------------------------- strings
Sep == "/"

VALID_PPOI_ARTIFACT_VARIANT == {<<"POI", "_3x3">>, <<"POI", "_13x13">>}

VALID_RAILGUN_ARTIFACT_VARIANTS ==
  {
    <<"01x01">>, <<"01x02">>, <<"01x03">>, <<"01x04">>, <<"01x05">>, <<"01x06">>, <<"01x07">>,
    <<"01x08">>, <<"01x09">>, <<"01x10">>, <<"01x11">>, <<"01x12">>, <<"01x13">>, <<"02x01">>,
    <<"02x02">>, <<"02x03">>, <<"02x04">>, <<"02x05">>, <<"02x06">>, <<"02x07">>, <<"02x08">>,
    <<"02x09">>, <<"02x10">>, <<"02x11">>, <<"02x12">>, <<"03x01">>, <<"03x02">>, <<"03x03">>,
    <<"03x04">>, <<"03x05">>, <<"03x06">>, <<"03x07">>, <<"03x08">>, <<"03x09">>, <<"03x10">>,
    <<"03x11">>, <<"04x01">>, <<"04x02">>, <<"04x03">>, <<"04x04">>, <<"04x05">>, <<"04x06">>,
    <<"04x07">>, <<"04x08">>, <<"04x09">>, <<"04x10">>, <<"05x01">>, <<"05x02">>, <<"05x03">>,
    <<"05x04">>, <<"05x05">>, <<"05x06">>, <<"05x07">>, <<"05x08">>, <<"05x09">>, <<"06x01">>,
    <<"06x02">>, <<"06x03">>, <<"06x04">>, <<"06x05">>, <<"06x06">>, <<"06x07">>, <<"06x08">>,
    <<"07x01">>, <<"07x02">>, <<"07x03">>, <<"07x04">>, <<"07x05">>, <<"07x06">>, <<"07x07">>,
    <<"08x01">>, <<"08x02">>, <<"08x03">>, <<"08x04">>, <<"08x05">>, <<"08x06">>, <<"09x01">>,
    <<"09x02">>, <<"09x03">>, <<"09x04">>, <<"09x05">>, <<"10x01">>, <<"10x02">>, <<"10x03">>,
    <<"10x04">>, <<"11x01">>, <<"11x02">>, <<"11x03">>, <<"12x01">>, <<"12x02">>, <<"13x01">> }

\* Variant strings a caller can pass at run time (the ValidArtifactVariant
\* type is erased): a standard one, a privacy-proof one, a string of neither
\* family, and strings made of dots and separators.
Variants ==
  { <<"01x01">>, <<"POI", "_3x3">>, <<"not-a-variant">>,
    <<"..">>, <<"..", Sep, "x">>, <<"a", Sep, "b">> }

\* Variant strings by family: a standard one, a listed privacy-proof one and
\* one that starts with the privacy-proof prefix without being listed.
FamilyVariants == {<<"01x01">>, <<"POI", "_3x3">>, <<"POI", "_5x5">>}

\* The ones downloadArtifactsForVariant is called with under concurrency.
DownloadVariants ==
  { <<"01x01">>, <<"not-a-variant">>, <<"..", Sep, "x">> }

Max(S) == CHOOSE x \in S : \A y \in S : y <= x
Min(S) == CHOOSE x \in S : \A y \in S : x <= y

\* node:path basename (posix): drop trailing separators, keep what follows
\* the last remaining separator; the empty string when nothing is left.
Basename(s) ==
  LET nonSep == {i \in 1..Len(s) : s[i] # Sep} IN
  IF nonSep = {} THEN <<>>
  ELSE LET end == Max(nonSep)
           start == Max({i \in 1..end : s[i] = Sep} \cup {0}) + 1
       IN SubSeq(s, start, end)

IsPPOIartifactVariant(v) == v \in VALID_PPOI_ARTIFACT_VARIANT

\* #artifactDownloadsDir throws when the variant is not its own basename.
ArtifactDownloadsDirThrows(v) == Basename(v) # v

ArtifactDownloadsDir(v) ==
  IF IsPPOIartifactVariant(v)
    THEN <<"artifacts-v2.1", Sep, "ppoi-nov-2-23", Sep>> \o v
    ELSE <<"artifacts-v2.1", Sep>> \o v

\* #validateArtifactVariant of the earlier downloader: membership in the lists.
IsValidArtifactVariant(v) ==
  v \in VALID_RAILGUN_ARTIFACT_VARIANTS \/ v \in VALID_PPOI_ARTIFACT_VARIANT

ArtifactDownloadsPath(name, v) ==
  CASE name = WASM -> ArtifactDownloadsDir(v) \o <<Sep, "wasm">>
    [] name = ZKEY -> ArtifactDownloadsDir(v) \o <<Sep, "zkey">>
    [] name = VKEY -> ArtifactDownloadsDir(v) \o <<Sep, "vkey.json">>
    [] name = DAT  -> ArtifactDownloadsDir(v) \o <<Sep, "dat">>

GetIPFSpathForArtifactName(name, v) ==
  IF IsPPOIartifactVariant(v)
    THEN CASE name = WASM -> v \o <<Sep, "wasm.br">>
           [] name = ZKEY -> v \o <<Sep, "zkey.br">>
           [] name = VKEY -> v \o <<Sep, "vkey.json">>
           [] name = DAT  -> v \o <<Sep, "dat.br">>
    ELSE CASE name = WASM -> <<"prover", Sep, "snarkjs", Sep>> \o v \o <<".", name, ".br">>
           [] name = DAT  -> <<"prover", Sep, "native", Sep>> \o v \o <<".", name, ".br">>
           [] name = ZKEY -> <<"circuits", Sep>> \o v \o <<Sep, name, ".br">>
           [] name = VKEY -> <<"circuits", Sep>> \o v \o <<Sep, name, ".json">>

\* The directory entries a file-system store walks for a key: the segments
\* between separators, ".." leaving the directory entered last.
RECURSIVE Resolve(_, _, _)
Resolve(s, dirs, seg) ==
  LET entered == IF seg = <<>> THEN dirs
                 ELSE IF seg = <<"..">> THEN (IF dirs = <<>> THEN <<>> ELSE SubSeq(dirs, 1, Len(dirs) - 1))
                 ELSE Append(dirs, seg)
  IN IF s = <<>> THEN entered
     ELSE IF Head(s) = Sep THEN Resolve(Tail(s), entered, <<>>)
     ELSE Resolve(Tail(s), dirs, Append(seg, Head(s)))

UnderRoot(key) ==
  LET entries == Resolve(key, <<>>, <<>>)
  IN Len(entries) > 1 /\ entries[1] = <<"artifacts-v2.1">>

\* ---------------------------------------------------------- error messages
\* A message is a sequence of tokens; a token is a piece of text or a number.
Txt(s) == [txt |-> s, num |-> -1]
Num(n) == [txt |-> "", num |-> n]

NoError == <<>>
MsgRetryableStatus(code) == <<Txt("Retryable fetch error "), Txt("status:"), Num(code), Txt(" statusText")>>
MsgFailedToFetch(code) == <<Txt("Failed to fetch: "), Num(code), Txt(" statusText")>>
MsgNotInitialized == <<Txt("Verified fetch not initialized")>>
MsgNetwork == <<Txt("network error")>>
MsgDecompress == <<Txt("brotli: invalid input")>>
MsgStoreWrite == <<Txt("store write failed")>>
MsgInitFailed == <<Txt("Failed to initialize verified fetch: "), Txt("cause")>>
\* An error of a caller's own operation that names a status no retry is for.
MsgUpstreamStatus(code) == <<Txt("upstream "), Txt("status:"), Num(code)>>
MsgReadCached(key) == <<Txt("Failed to read cached artifact: ")>> \o [i \in 1..Len(key) |-> Txt(key[i])]

IsRetryableStatusCode(statusCode) == statusCode \in RETRYABLE_STATUS_CODES

\* error.message.match(/status:(\d+)/): the places where "status:" is
\* directly followed by digits.
StatusMatches(msg) ==
  {i \in 1..Len(msg) : msg[i].txt = "status:" /\ i < Len(msg) /\ msg[i + 1].num >= 0}

IpfsRetryHandler(msg) ==
  IF (\E i \in 1..Len(msg) : msg[i].txt = "status:") /\ StatusMatches(msg) # {}
    THEN IsRetryableStatusCode(msg[Min(StatusMatches(msg)) + 1].num)
    ELSE TRUE

\* -------------------------------------------------------------- withRetry
\* A loop that runs one iteration more.
LoopContinuesOnceMore(attempt, maxRetries) == attempt <= maxRetries + 1

\* for (attempt = 0; attempt <= maxRetries; attempt++)
LoopContinues(attempt, maxRetries) == attempt <= maxRetries

\* catch: if (attempt < maxRetries && shouldRetry(error)) await delay
TakesDelayAfterTheFirst(attempt, maxRetries, retryable) == 0 < attempt /\ attempt < maxRetries /\ retryable

\* A catch block that waits after the last attempt too.
TakesDelayAfterTheLast(attempt, maxRetries, retryable) == attempt <= maxRetries /\ retryable

TakesDelay(attempt, maxRetries, retryable) == attempt < maxRetries /\ retryable

\* Math.pow(2, attempt).
RECURSIVE Pow2(_)
Pow2(k) == IF k <= 0 THEN 1 ELSE 2 * Pow2(k - 1)

\* A backoff that stops growing after the third retry.
CalculateRetryDelayCapped(attempt, baseDelayMs, addJitter, random) ==
  Pow2(IF attempt > 2 THEN 2 ELSE attempt) * baseDelayMs + (IF addJitter THEN random ELSE 0)

\* calculateRetryDelay (retry-utils.ts 15-23); random stands for the value
\* of Math.random() * baseDelayMs, which lies in [0, baseDelayMs).
CalculateRetryDelay(attempt, baseDelayMs, addJitter, random) ==
  Pow2(attempt) * baseDelayMs + (IF addJitter THEN random ELSE 0)

\* The values of Math.random() * baseDelayMs the model draws: both ends of
\* the range.
JitterSamples(baseDelayMs) == {0, baseDelayMs - 1}

\* options.shouldRetry: the default of DEFAULT_RETRY_OPTIONS, ipfsRetryHandler,
\* or a caller's predicate that refuses every error.
RetryHandlers == {"default", "ipfs", "never"}

ShouldRetry(handler, msg) ==
  CASE handler = "default" -> TRUE
    [] handler = "ipfs" -> IpfsRetryHandler(msg)
    [] handler = "never" -> FALSE

\* ------------------------------------------------------------------ bytes
\* comp: brotli-compressed or not; body: whose content it is.
Bytes(comp, body) == [comp |-> comp, body |-> body]
Null == [comp |-> FALSE, body |-> "null"]

\* What the network holds for a kind: vkey is plain JSON, the rest are .br.
NetworkBytes(name) == Bytes(name # VKEY, "net")
\* A 2xx answer that is not validly compressed.
JunkBytes == Bytes(FALSE, "junk")

\* brotliDecompress throws on input that is not compressed.
DecompressThrows(data, name) == name # VKEY /\ ~data.comp

\* A decompression step that hands the bytes on as received.
DecompressArtifactSkipped(data, name) == data

DecompressArtifact(data, name) ==
  IF name = VKEY THEN data ELSE Bytes(FALSE, data.body)


\* ------------------------------------------------------------------- state
VARIABLES
  maxRetries,          \* #maxRetries
  useNativeArtifacts,  \* #useNativeArtifacts
  requested,           \* the variant string the caller works with in this run
  verifiedFetch,       \* #verifiedFetch: 0 (undefined) or the instance held
  created,             \* transport instances created so far (ids 1..created)
  stopped,             \* instances whose stop() was called
  factoryCalls,        \* createVerifiedFetch invocations since the last completed stop()
  store,               \* the artifact store: pairs <<storage key, bytes>> (Null: unreadable entry)
  task,                \* the fetchFromIPFS activations
  dl,                  \* the current downloadArtifactsForVariant call
  prev,                \* the downloadArtifactsForVariant call before it
  stopPc,              \* stop(): 0 when not running, else the instance being stopped
  stopPc2,             \* a stop() called while another is pending: likewise
  calls,               \* public calls made (downloadArtifactsForVariant, fetchFromIPFS)
  events,              \* events used of MaxEvents
  lone,                \* the activations of the run never overlap; their answers may fail freely
  stopLog,             \* the instances whose stop() was invoked, in the order of the invocations
  fb,                  \* a fetchFromIPFSWithFallback call of the hash-validating downloader
  pf,                  \* a fetchFromIPFS call of ArtifactDownloaderFetch (plain HTTP)
  ac,                  \* an ArtifactCache: its map, and what was done to it last
  rt                   \* a withRetry call on a caller's own operation

vars == <<maxRetries, useNativeArtifacts, requested, verifiedFetch, created, stopped,
          factoryCalls, store, task, dl, prev, stopPc, stopPc2, calls, events, lone, stopLog, fb, pf, ac, rt>>

\* Concurrent fetchFromIPFS activations: the three of one
\* downloadArtifactsForVariant (Promise.all of three fetches).
Slots == 1..3

Running == {"exists", "get", "init", "fetch", "store", "delay"}
Settled == {"done", "failed"}

IdleTask ==
  [pc |-> "idle", variant |-> <<>>, name |-> VKEY, grp |-> "none", storePath |-> <<>>,
   attempt |-> 0, invocations |-> 0, netCalls |-> 0, delays |-> 0, inits |-> 0, inst |-> 0,
   ipfsPath |-> <<>>, hit |-> FALSE, wrote |-> FALSE, read |-> Null, data |-> Null, result |-> Null,
   lastError |-> NoError, error |-> NoError, wrapped |-> FALSE]

NoDownload ==
  [state |-> "none", variant |-> <<>>, paths |-> <<>>, failedName |-> "none", netCalls |-> 0,
   cidRoot |-> "", error |-> NoError]

\* The error fetchFromIPFS rethrows at line 310: kind, variant and the
\* (fixed) attempt count around the message of the caught error.
WrappedMessage(name, v, msg) ==
  <<Txt("IPFS fetch failed for "), Txt(name), Txt(" (")>> \o [i \in 1..Len(v) |-> Txt(v[i])]
    \o <<Txt(") after "), Num(maxRetries + 1), Txt(" attempts: ")>> \o msg

MsgTraversal(v) ==
  <<Txt("Invalid artifact variant: contains path traversal characters: ")>>
    \o [i \in 1..Len(v) |-> Txt(v[i])]

\* A fetchFromIPFS that asks the transport before it looks at the store.
ActivationFetchingFirst(v, name, grp) ==
  [IdleTask EXCEPT !.pc = "fetch", !.variant = v, !.name = name, !.grp = grp,
                   !.storePath = ArtifactDownloadsPath(name, v), !.invocations = 1, !.netCalls = 1]

\* fetchFromIPFS up to its first await: build the storage key (which throws
\* on a variant that is not its own basename) and call store.exists on it.
Activation(v, name, grp) ==
  IF ArtifactDownloadsDirThrows(v)
    THEN [IdleTask EXCEPT !.pc = "failed", !.variant = v, !.name = name, !.grp = grp,
                          !.error = MsgTraversal(v)]
    ELSE [IdleTask EXCEPT !.pc = "exists", !.variant = v, !.name = name, !.grp = grp,
                          !.storePath = ArtifactDownloadsPath(name, v)]

\* A downloader that ignores the flag.
ProgramNameAlwaysWasm == WASM

ProgramName == IF useNativeArtifacts THEN DAT ELSE WASM

\* A download that waits for all three and overlooks the failed ones.
DlSettleOverlookingFailures(tk) ==
  IF dl.state = "running" /\ \A t \in Slots : tk[t].pc \in {"done", "failed"}
    THEN [dl EXCEPT !.state = "ok",
                    !.paths = <<tk[1].storePath, tk[2].storePath, tk[3].storePath>>]
    ELSE dl

\* Promise.all over the activations of the download: rejected by the first
\* one that fails, fulfilled once all three are; then the three paths.
DlSettle(tk) ==
  LET mine == {t \in Slots : tk[t].grp = "dl"}
      bad == {t \in mine : tk[t].pc = "failed"}
      counted == [dl EXCEPT !.netCalls = tk[1].netCalls + tk[2].netCalls + tk[3].netCalls]
  IN IF dl.state # "running" THEN dl
     ELSE IF bad # {}
       THEN LET first == CHOOSE t \in bad : \A u \in bad : t <= u
            IN [counted EXCEPT !.state = "failed", !.failedName = tk[first].name,
                               !.error = tk[first].error]
     ELSE IF \A t \in mine : tk[t].pc = "done"
       THEN [counted EXCEPT !.state = "ok",
                            !.paths = <<ArtifactDownloadsPath(VKEY, dl.variant),
                                        ArtifactDownloadsPath(ZKEY, dl.variant),
                                        ArtifactDownloadsPath(ProgramName, dl.variant)>>]
     ELSE counted

\* Slots whose activation has settled and is not awaited by a running
\* download; a new call finds them cleared.
FreeSlots ==
  {t \in Slots : task[t].pc \notin Running /\ ~(task[t].grp = "dl" /\ dl.state = "running")}

Cleared == [t \in Slots |-> IF t \in FreeSlots THEN IdleTask ELSE task[t]]

\* withRetry with the operation of fetchFromIPFS, from the loop head
\* (retry-utils.ts 45-47, 59; fetchFromIPFS 276-278, 308-312) and from the
\* catch block (retry-utils.ts 48-56), for the activation tk; vf is the
\* instance #verifiedFetch holds. No await lies between a catch that takes
\* no delay and the next call of the operation.
RECURSIVE LoopHead(_, _)
RECURSIVE Caught(_, _, _)
\* A catch block that keeps the first error it saw.
CaughtKeepingFirst(tk, msg, vf) ==
  LET kept == IF tk.lastError = NoError THEN msg ELSE tk.lastError
  IN IF TakesDelay(tk.attempt, maxRetries, IpfsRetryHandler(msg))
       THEN [tk EXCEPT !.lastError = kept, !.pc = "delay", !.delays = @ + 1]
       ELSE LoopHead([tk EXCEPT !.lastError = kept, !.attempt = @ + 1], vf)

LoopHead(tk, vf) ==
  IF ~LoopContinues(tk.attempt, maxRetries)
    THEN [tk EXCEPT !.pc = "failed", !.wrapped = TRUE,
                    !.error = WrappedMessage(tk.name, tk.variant, tk.lastError)]
  ELSE IF vf = 0
    THEN Caught([tk EXCEPT !.invocations = @ + 1], MsgNotInitialized, vf)
  ELSE [tk EXCEPT !.pc = "fetch", !.invocations = @ + 1, !.netCalls = @ + 1, !.inst = vf,
                  !.ipfsPath = GetIPFSpathForArtifactName(tk.name, tk.variant)]

Caught(tk, msg, vf) ==
  IF TakesDelay(tk.attempt, maxRetries, IpfsRetryHandler(msg))
    THEN [tk EXCEPT !.lastError = msg, !.pc = "delay", !.delays = @ + 1]
    ELSE LoopHead([tk EXCEPT !.lastError = msg, !.attempt = @ + 1], vf)

EventAllowed == events < MaxEvents
\* A failing answer is an event, except in a run without overlap.
FaultAllowed == lone \/ EventAllowed
AfterFault == IF lone THEN events ELSE events + 1
\* In a run without overlap a call waits for the activation before it;
\* otherwise the first call is free and a further one is an event.
CallAllowed ==
  IF lone THEN calls < MaxCalls /\ \A t \in Slots : task[t].pc \notin Running
  ELSE calls = 0 \/ EventAllowed
AfterCall == IF lone \/ calls = 0 THEN events ELSE events + 1
\* A stop() call is an event; a run without overlap has MaxStops of them.
StopAllowed == IF lone THEN events < MaxStops ELSE EventAllowed

\* A store that never reports a key.
StoreExistsNever(key) == FALSE

\* A store that drops what it is given.
StorePutDropped(key, data) == store

\* The store collaborator: exists, get and store over the pairs held.
StoreExists(key) == \E e \in store : e[1] = key
StoreGet(key) == (CHOOSE e \in store : e[1] = key)[2]
StorePut(key, data) == {e \in store : e[1] # key} \cup {<<key, data>>}

IdleFallback ==
  [pc |-> "idle", name |-> VKEY, variant |-> <<>>, ipfsCalls |-> 0, httpCalls |-> 0,
   mismatchAt |-> -1, ipfs |-> "none", error |-> NoError, result |-> Null]

IdlePlain ==
  [pc |-> "idle", name |-> VKEY, variant |-> <<>>, storePath |-> <<>>, attempt |-> 0,
   netCalls |-> 0, delays |-> <<>>, wrote |-> FALSE, received |-> Null, data |-> Null,
   result |-> Null, lastError |-> NoError, error |-> NoError,
   currentGatewayIndex |-> 0, gatewayLog |-> <<>>, others |-> 0]

\* A new ArtifactCache: an empty Map. keys and last are the record of what
\* the caller did: the keys set since the last clear(), and the last call.
EmptyCache ==
  [cache |-> {}, keys |-> {}, last |-> [op |-> "none", key |-> <<>>, data |-> Null]]

IdleRetry ==
  [pc |-> "idle", maxRetries |-> 0, shouldRetry |-> "default", attempt |-> 0,
   invocations |-> 0, delays |-> 0, lastError |-> NoError, refusedAt |-> -1,
   baseDelayMs |-> 0, addJitter |-> FALSE, failures |-> 0, allRetryable |-> TRUE,
   delayLog |-> <<>>]

\* A downloader just constructed, nothing called yet.
Constructed ==
  /\ verifiedFetch = 0
  /\ created = 0
  /\ stopped = {}
  /\ factoryCalls = 0
  /\ task = [t \in Slots |-> IdleTask]
  /\ dl = NoDownload
  /\ prev = NoDownload
  /\ stopPc = 0
  /\ stopPc2 = 0
  /\ calls = 0
  /\ events = 0
  /\ stopLog = <<>>
  /\ fb = IdleFallback
  /\ pf = IdlePlain
  /\ ac = EmptyCache
  /\ rt = IdleRetry

\* Concurrent use: downloads, direct fetches and stop() overlapping.
Init ==
  /\ Constructed
  /\ maxRetries \in {0, MaxRetriesCfg}
  /\ useNativeArtifacts \in BOOLEAN
  /\ requested \in DownloadVariants
  /\ store = {}
  /\ lone = FALSE

\* Use without overlap: fetchFromIPFS calls one after the other, of any kind
\* and variant, with the default retry count too, over a store that is
\* empty or holds an entry the store cannot read back.
InitLone ==
  /\ Constructed
  /\ maxRetries \in (0..MaxRetriesCfg) \cup {DefaultMaxRetries}
  /\ useNativeArtifacts = FALSE
  /\ requested \in Variants
  /\ store \in {{}} \cup
       (IF ArtifactDownloadsDirThrows(requested) THEN {}
        ELSE {{<<ArtifactDownloadsPath(VKEY, requested), Null>>}})
  /\ lone = TRUE

\* withRetry on its own: no downloader call is made.
InitRetry ==
  /\ Constructed
  /\ maxRetries = DefaultMaxRetries
  /\ useNativeArtifacts = FALSE
  /\ requested = <<"01x01">>
  /\ store = {}
  /\ lone = TRUE

\* ----------------------------------------------------------------- actions
\* fetchFromIPFS called directly (lines 234-245).
FetchFromIPFS(v, name) ==
  /\ CallAllowed
  /\ FreeSlots # {}
  /\ task' = [Cleared EXCEPT ![Min(FreeSlots)] = Activation(v, name, "direct")]
  /\ calls' = calls + 1
  /\ events' = AfterCall
  /\ UNCHANGED <<rt, fb, pf, ac, stopLog, maxRetries, useNativeArtifacts, requested, verifiedFetch, created, stopped,
                 factoryCalls, store, dl, prev, stopPc, stopPc2, lone>>

\* The root CID downloadArtifactsForVariant passes on (lines 110-112).
CidRoot(v) == IF IsPPOIartifactVariant(v) THEN PPOI_ARTIFACTS_CID ELSE RAILGUN_ARTIFACTS_CID_ROOT

\* A download that starts the vkey fetch alone.
DownloadOneAtATime(v) ==
  /\ CallAllowed
  /\ FreeSlots = Slots
  /\ dl.state # "running"
  /\ task' = [t \in Slots |-> IF t = 1 THEN Activation(v, VKEY, "dl")
                                        ELSE [IdleTask EXCEPT !.grp = "dl"]]
  /\ prev' = dl
  /\ dl' = [NoDownload EXCEPT !.state = "running", !.variant = v]
  /\ calls' = calls + 1
  /\ events' = AfterCall
  /\ UNCHANGED <<rt, fb, pf, ac, stopLog, maxRetries, useNativeArtifacts, requested, verifiedFetch, created,
                 stopped, factoryCalls, store, stopPc, stopPc2, lone>>

\* downloadArtifactsForVariant (lines 103-122): the three activations start
\* in the same turn, each running to its store.exists call.
DownloadArtifactsForVariant(v) ==
  /\ CallAllowed
  /\ FreeSlots = Slots
  /\ dl.state # "running"
  /\ LET tk == [t \in Slots |->
                  CASE t = 1 -> Activation(v, VKEY, "dl")
                    [] t = 2 -> Activation(v, ZKEY, "dl")
                    [] t = 3 -> Activation(v, ProgramName, "dl")
                    [] OTHER -> IdleTask]
         started == [NoDownload EXCEPT !.state = "running", !.variant = v, !.cidRoot = CidRoot(v)]
     IN /\ task' = tk
        /\ prev' = dl
        /\ dl' = IF \E t \in Slots : tk[t].pc = "failed"
                   THEN [started EXCEPT !.state = "failed", !.failedName = VKEY,
                                        !.error = tk[1].error]
                   ELSE started
  /\ calls' = calls + 1
  /\ events' = AfterCall
  /\ UNCHANGED <<rt, fb, pf, ac, stopLog, maxRetries, useNativeArtifacts, requested, verifiedFetch, created, stopped,
                 factoryCalls, store, stopPc, stopPc2, lone>>

\* store.exists answers (lines 245-257): on a hit store.get is called; on a
\* miss #initVerifiedFetch runs to its await (lines 58-65) or, with an
\* instance held, returns and the first attempt starts.
ExistsReturn(t) ==
  /\ task[t].pc = "exists"
  /\ LET tk ==
           IF StoreExists(task[t].storePath)
             THEN [task EXCEPT ![t].pc = "get", ![t].hit = TRUE]
           ELSE IF verifiedFetch = 0
             THEN [task EXCEPT ![t].pc = "init", ![t].inits = @ + 1]
           ELSE [task EXCEPT ![t] = LoopHead(@, verifiedFetch)]
     IN /\ task' = tk
        /\ dl' = DlSettle(tk)
        /\ factoryCalls' = IF tk[t].pc = "init" THEN factoryCalls + 1 ELSE factoryCalls
  /\ UNCHANGED <<rt, fb, pf, ac, stopLog, maxRetries, useNativeArtifacts, requested, verifiedFetch, created, stopped,
                 store, prev, stopPc, stopPc2, calls, events, lone>>

\* The cache-first lookup dropped: a hit goes on to the retried operation.
GetReturnIgnoringCache(t) ==
  /\ task[t].pc = "get"
  /\ LET tk == [task EXCEPT ![t] = LoopHead([@ EXCEPT !.read = StoreGet(task[t].storePath)], verifiedFetch)]
     IN task' = tk /\ dl' = DlSettle(tk)
  /\ UNCHANGED <<rt, fb, pf, ac, stopLog, maxRetries, useNativeArtifacts, requested, verifiedFetch, created, stopped,
                 factoryCalls, store, prev, stopPc, stopPc2, calls, events, lone>>

\* store.get answers (lines 250-254).
GetReturn(t) ==
  /\ task[t].pc = "get"
  /\ LET cachedData == StoreGet(task[t].storePath)
         tk == IF cachedData = Null
                 THEN [task EXCEPT ![t].pc = "failed", ![t].read = cachedData,
                                   ![t].error = MsgReadCached(task[t].storePath)]
                 ELSE [task EXCEPT ![t].pc = "done", ![t].read = cachedData,
                                   ![t].result = cachedData]
     IN /\ task' = tk
        /\ dl' = DlSettle(tk)
  /\ UNCHANGED <<rt, fb, pf, ac, stopLog, maxRetries, useNativeArtifacts, requested, verifiedFetch, created, stopped,
                 factoryCalls, store, prev, stopPc, stopPc2, calls, events, lone>>

\* createVerifiedFetch resolves (line 63): the new instance is assigned, and
\* the first attempt starts (lines 259-278).
InitReturn(t) ==
  /\ task[t].pc = "init"
  /\ created' = created + 1
  /\ verifiedFetch' = created + 1
  /\ LET tk == [task EXCEPT ![t] = LoopHead(@, created + 1)]
     IN task' = tk /\ dl' = DlSettle(tk)
  /\ UNCHANGED <<rt, fb, pf, ac, stopLog, maxRetries, useNativeArtifacts, requested, stopped, factoryCalls, store,
                 prev, stopPc, stopPc2, calls, events, lone>>

\* A failed initialization that leaves the field as it finds it.
InitFailKeepingInstance(t) ==
  /\ task[t].pc = "init"
  /\ FaultAllowed
  /\ verifiedFetch' = -1
  /\ LET tk == [task EXCEPT ![t].pc = "failed", ![t].error = MsgInitFailed]
     IN task' = tk /\ dl' = DlSettle(tk)
  /\ events' = AfterFault
  /\ UNCHANGED <<rt, fb, pf, ac, stopLog, maxRetries, useNativeArtifacts, requested, created, stopped, factoryCalls,
                 store, prev, stopPc, stopPc2, calls, lone>>

\* createVerifiedFetch rejects (lines 66-71).
InitFail(t) ==
  /\ task[t].pc = "init"
  /\ FaultAllowed
  /\ verifiedFetch' = 0
  /\ LET tk == [task EXCEPT ![t].pc = "failed", ![t].error = MsgInitFailed]
     IN task' = tk /\ dl' = DlSettle(tk)
  /\ events' = AfterFault
  /\ UNCHANGED <<rt, fb, pf, ac, stopLog, maxRetries, useNativeArtifacts, requested, created, stopped, factoryCalls,
                 store, prev, stopPc, stopPc2, calls, lone>>

\* The transport answers 2xx and the body is read (lines 278-302): the bytes
\* are decompressed and store.store is called with them.
FetchOk(t, body) ==
  /\ task[t].pc = "fetch"
  /\ body = JunkBytes => FaultAllowed
  /\ LET tk ==
           IF DecompressThrows(body, task[t].name)
             THEN [task EXCEPT ![t] = Caught(@, MsgDecompress, verifiedFetch)]
             ELSE [task EXCEPT ![t].pc = "store",
                               ![t].data = DecompressArtifact(body, task[t].name)]
     IN task' = tk /\ dl' = DlSettle(tk)
  /\ events' = IF body = JunkBytes THEN AfterFault ELSE events
  /\ UNCHANGED <<rt, fb, pf, ac, stopLog, maxRetries, useNativeArtifacts, requested, verifiedFetch, created, stopped,
                 factoryCalls, store, prev, stopPc, stopPc2, calls, lone>>

\* The transport answers with a non-2xx status (lines 280-287).
FetchStatus(t, statusCode) ==
  /\ task[t].pc = "fetch"
  /\ FaultAllowed
  /\ LET tk == [task EXCEPT ![t] =
                  Caught(@, IF IsRetryableStatusCode(statusCode)
                              THEN MsgRetryableStatus(statusCode)
                              ELSE MsgFailedToFetch(statusCode), verifiedFetch)]
     IN task' = tk /\ dl' = DlSettle(tk)
  /\ events' = AfterFault
  /\ UNCHANGED <<rt, fb, pf, ac, stopLog, maxRetries, useNativeArtifacts, requested, verifiedFetch, created, stopped,
                 factoryCalls, store, prev, stopPc, stopPc2, calls, lone>>

\* The transport call or the reading of the body rejects (timeout, reset).
FetchNetworkError(t) ==
  /\ task[t].pc = "fetch"
  /\ FaultAllowed
  /\ LET tk == [task EXCEPT ![t] = Caught(@, MsgNetwork, verifiedFetch)]
     IN task' = tk /\ dl' = DlSettle(tk)
  /\ events' = AfterFault
  /\ UNCHANGED <<rt, fb, pf, ac, stopLog, maxRetries, useNativeArtifacts, requested, verifiedFetch, created, stopped,
                 factoryCalls, store, prev, stopPc, stopPc2, calls, lone>>

\* A write that is skipped when another call has filled the key meanwhile.
StoreReturnUnlessPresent(t) ==
  /\ task[t].pc = "store"
  /\ store' = IF StoreExists(task[t].storePath) THEN store
              ELSE StorePut(task[t].storePath, task[t].data)
  /\ LET tk == [task EXCEPT ![t].pc = "done", ![t].wrote = ~StoreExists(task[t].storePath),
                            ![t].result = task[t].data]
     IN task' = tk /\ dl' = DlSettle(tk)
  /\ UNCHANGED <<rt, fb, pf, ac, stopLog, maxRetries, useNativeArtifacts, requested, verifiedFetch, created, stopped,
                 factoryCalls, prev, stopPc, stopPc2, calls, events, lone>>

\* store.store resolves (lines 298-306): the operation returns the bytes.
StoreReturn(t) ==
  /\ task[t].pc = "store"
  /\ store' = StorePut(task[t].storePath, task[t].data)
  /\ LET tk == [task EXCEPT ![t].pc = "done", ![t].wrote = TRUE, ![t].result = task[t].data]
     IN task' = tk /\ dl' = DlSettle(tk)
  /\ UNCHANGED <<rt, fb, pf, ac, stopLog, maxRetries, useNativeArtifacts, requested, verifiedFetch, created, stopped,
                 factoryCalls, prev, stopPc, stopPc2, calls, events, lone>>

\* A store.store that rejects after it has put the entry in place.
StoreFailLeavingEntry(t) ==
  /\ task[t].pc = "store"
  /\ FaultAllowed
  /\ store' = StorePut(task[t].storePath, task[t].data)
  /\ LET tk == [task EXCEPT ![t] = Caught(@, MsgStoreWrite, verifiedFetch)]
     IN task' = tk /\ dl' = DlSettle(tk)
  /\ events' = AfterFault
  /\ UNCHANGED <<rt, fb, pf, ac, stopLog, maxRetries, useNativeArtifacts, requested, verifiedFetch, created, stopped,
                 factoryCalls, prev, stopPc, stopPc2, calls, lone>>

\* store.store rejects: the error is thrown inside the retried operation.
StoreFail(t) ==
  /\ task[t].pc = "store"
  /\ FaultAllowed
  /\ LET tk == [task EXCEPT ![t] = Caught(@, MsgStoreWrite, verifiedFetch)]
     IN task' = tk /\ dl' = DlSettle(tk)
  /\ events' = AfterFault
  /\ UNCHANGED <<rt, fb, pf, ac, stopLog, maxRetries, useNativeArtifacts, requested, verifiedFetch, created, stopped,
                 factoryCalls, store, prev, stopPc, stopPc2, calls, lone>>

\* A backoff timer that is armed again each time it fires.
DelayDoneArmedAgain(t) ==
  /\ task[t].pc = "delay"
  /\ UNCHANGED vars

\* The backoff timer fires (retry-utils.ts 54): the next iteration starts.
DelayDone(t) ==
  /\ task[t].pc = "delay"
  /\ LET tk == [task EXCEPT ![t] = LoopHead([@ EXCEPT !.attempt = @ + 1], verifiedFetch)]
     IN task' = tk /\ dl' = DlSettle(tk)
  /\ UNCHANGED <<rt, fb, pf, ac, stopLog, maxRetries, useNativeArtifacts, requested, verifiedFetch, created, stopped,
                 factoryCalls, store, prev, stopPc, stopPc2, calls, events, lone>>

\* stop() up to its await (lines 319-322).
Stop ==
  /\ StopAllowed
  /\ stopPc = 0
  /\ events' = events + 1
  /\ IF verifiedFetch # 0
       THEN /\ stopPc' = verifiedFetch
            /\ stopped' = stopped \cup {verifiedFetch}
            /\ stopLog' = Append(stopLog, verifiedFetch)
       ELSE UNCHANGED <<stopPc, stopped, stopLog>>
  /\ UNCHANGED <<rt, fb, pf, ac, maxRetries, useNativeArtifacts, requested, verifiedFetch, created,
                 factoryCalls, store, task, dl, prev, stopPc2, calls, lone>>

\* A stop() that leaves the reference in place.
StopReturnKeepingReference ==
  /\ stopPc # 0
  /\ stopPc' = 0
  /\ UNCHANGED <<rt, fb, pf, ac, stopLog, maxRetries, useNativeArtifacts, requested, verifiedFetch, created,
                 stopped, factoryCalls, store, task, dl, prev, stopPc2, calls, events, lone>>

\* The instance's stop() resolves (lines 323-324).
StopReturn ==
  /\ stopPc # 0
  /\ stopPc' = 0
  /\ verifiedFetch' = 0
  /\ factoryCalls' = 0
  /\ UNCHANGED <<rt, fb, pf, ac, stopLog, maxRetries, useNativeArtifacts, requested, created, stopped, store, task,
                 dl, prev, stopPc2, calls, events, lone>>

\* stop() is called while an earlier stop() still awaits the instance's
\* stop(): the reference is still set (line 320), so the instance's stop()
\* is invoked again (line 321).
StopDuringStop ==
  /\ StopAllowed
  /\ stopPc # 0
  /\ stopPc2 = 0
  /\ events' = events + 1
  /\ IF verifiedFetch # 0
       THEN /\ stopPc2' = verifiedFetch
            /\ stopped' = stopped \cup {verifiedFetch}
            /\ stopLog' = Append(stopLog, verifiedFetch)
       ELSE UNCHANGED <<stopPc2, stopped, stopLog>>
  /\ UNCHANGED <<rt, fb, pf, ac, maxRetries, useNativeArtifacts, requested, verifiedFetch, created,
                 factoryCalls, store, task, dl, prev, stopPc, calls, lone>>

\* The instance's stop() resolves for the overlapping stop() (lines 323-324).
StopDuringStopReturn ==
  /\ stopPc2 # 0
  /\ stopPc2' = 0
  /\ verifiedFetch' = 0
  /\ factoryCalls' = 0
  /\ UNCHANGED <<rt, fb, pf, ac, stopLog, maxRetries, useNativeArtifacts, requested, created, stopped, store, task,
                 dl, prev, stopPc, calls, events, lone>>

\* ------------------------------------------------ withRetry on its own
dvars == <<maxRetries, useNativeArtifacts, requested, verifiedFetch, created, stopped,
           factoryCalls, store, task, dl, prev, stopPc, stopPc2, calls, events, lone, stopLog>>

\* The loop head (retry-utils.ts 45-47, 59): call fn, or throw lastError.
RetryHead(r) ==
  IF LoopContinues(r.attempt, r.maxRetries)
    THEN [r EXCEPT !.pc = "fn", !.invocations = @ + 1]
    ELSE [r EXCEPT !.pc = "thrown"]

\* withRetry(fn, options) is called (lines 32-47).
WithRetry(mr, handler, baseDelayMs, addJitter) ==
  /\ rt.pc = "idle"
  /\ rt' = RetryHead([IdleRetry EXCEPT !.maxRetries = mr, !.shouldRetry = handler,
                                       !.baseDelayMs = baseDelayMs, !.addJitter = addJitter])
  /\ UNCHANGED <<dvars, fb, pf, ac>>

\* fn resolves (line 47).
FnReturn ==
  /\ rt.pc = "fn"
  /\ rt' = [rt EXCEPT !.pc = "returned"]
  /\ UNCHANGED <<dvars, fb, pf, ac>>

\* fn rejects (lines 48-56): shouldRetry is asked when an attempt is left.
FnThrow(msg, random) ==
  /\ rt.pc = "fn"
  /\ LET asked == rt.attempt < rt.maxRetries
         refused == asked /\ ~ShouldRetry(rt.shouldRetry, msg)
         r == [rt EXCEPT !.lastError = msg,
                         !.refusedAt = IF refused /\ @ = -1 THEN rt.invocations ELSE @,
                         !.failures = @ + 1,
                         !.allRetryable = @ /\ ShouldRetry(rt.shouldRetry, msg)]
         delay == CalculateRetryDelay(rt.attempt, rt.baseDelayMs, rt.addJitter, random)
     IN rt' = IF TakesDelay(rt.attempt, rt.maxRetries, ShouldRetry(rt.shouldRetry, msg))
                THEN [r EXCEPT !.pc = "delay", !.delays = @ + 1,
                               !.delayLog = Append(@, [attempt |-> rt.attempt, delay |-> delay])]
                ELSE RetryHead([r EXCEPT !.attempt = @ + 1])
  /\ UNCHANGED <<dvars, fb, pf, ac>>

\* The backoff timer of withRetry fires (line 54).
RetryDelayDone ==
  /\ rt.pc = "delay"
  /\ rt' = RetryHead([rt EXCEPT !.attempt = @ + 1])
  /\ UNCHANGED <<dvars, fb, pf, ac>>

\* ------------------------------- the hash-validating fetch with fallback
\* createHash('sha256').update(data).digest('hex'): one digest per content.
Sha256(data) == <<"sha256", data.comp, data.body>>

\* The digest artifact-v2-hashes.json lists for a kind: that of the
\* decompressed artifact the network holds.
GetExpectedArtifactHash(name) == Sha256(DecompressArtifact(NetworkBytes(name), name))

\* Validly compressed bytes of another content.
ForgedBytes(name) == Bytes(name # VKEY, "forged")

\* validateArtifactDownload throws unless the kind is vkey or the digests agree.
ValidateThrows(data, name) == name # VKEY /\ Sha256(data) # GetExpectedArtifactHash(name)

MsgTimeout == <<Txt("IPFS fetch timeout after 10000ms")>>
MsgHttpStatus(status) == <<Txt("HTTP fetch failed with status "), Num(status)>>
MsgValidate(name, v) ==
  <<Txt("Validate artifact blob for "), Txt(name), Txt(": ")>> \o [i \in 1..Len(v) |-> Txt(v[i])]
MsgIpfsFailed(name, v, msg) ==
  <<Txt("IPFS fetch failed for "), Txt(name), Txt(" (")>> \o [i \in 1..Len(v) |-> Txt(v[i])]
    \o <<Txt("): ")>> \o msg
MsgHttpFailed(name, v, msg) ==
  <<Txt("HTTP gateway fetch failed for "), Txt(name), Txt(" (")>> \o [i \in 1..Len(v) |-> Txt(v[i])]
    \o <<Txt("): ")>> \o msg

\* What decompressing and validating received bytes throws; NoError if nothing.
ReceivedThrows(body, name, v) ==
  IF DecompressThrows(body, name) THEN MsgDecompress
  ELSE IF ValidateThrows(DecompressArtifact(body, name), name) THEN MsgValidate(name, v)
  ELSE NoError

\* The digest comparison of this answer is the first to fail.
NotesMismatch(f, body) ==
  IF f.mismatchAt = -1 /\ ~DecompressThrows(body, f.name)
       /\ ValidateThrows(DecompressArtifact(body, f.name), f.name)
    THEN [f EXCEPT !.mismatchAt = f.ipfsCalls + f.httpCalls]
    ELSE f

\* A wrapper that rethrows what the IPFS fetch threw.
FallsBackGivingUp(f, msg) == [f EXCEPT !.pc = "thrown", !.ipfs = "failed", !.error = msg]

\* The catch of fetchFromIPFSWithFallback: whatever the IPFS fetch threw,
\* the HTTP gateway is asked (lines 493-510).
FallsBack(f, msg) ==
  [f EXCEPT !.pc = "http", !.ipfs = "failed", !.httpCalls = @ + 1, !.error = msg]

\* fetchFromIPFSWithFallback is called: fetchFromIPFS runs to fs.cat.
FetchFromIPFSWithFallback(v, name) ==
  /\ fb.pc = "idle"
  /\ fb' = [IdleFallback EXCEPT !.pc = "ipfs", !.name = name, !.variant = v, !.ipfsCalls = 1,
                                !.ipfs = "pending"]
  /\ UNCHANGED <<dvars, rt, pf, ac>>

\* The IPFS content arrives (lines 436-463): decompressed, validated, and
\* returned as received, or the error rethrown and caught by the fallback.
IpfsAnswer(body) ==
  /\ fb.pc = "ipfs"
  /\ LET threw == ReceivedThrows(body, fb.name, fb.variant)
         f == NotesMismatch(fb, body)
     IN fb' = IF threw = NoError
                THEN [f EXCEPT !.pc = "returned", !.ipfs = "ok", !.result = body]
                ELSE FallsBack(f, MsgIpfsFailed(fb.name, fb.variant, threw))
  /\ UNCHANGED <<dvars, rt, pf, ac>>

\* The IPFS fetch rejects or loses the race against the timeout (lines 430-432, 473).
IpfsReject(msg) ==
  /\ fb.pc = "ipfs"
  /\ fb' = FallsBack(fb, IF msg = MsgTimeout THEN msg ELSE MsgIpfsFailed(fb.name, fb.variant, msg))
  /\ UNCHANGED <<dvars, rt, pf, ac>>

\* The HTTP gateway answers (lines 508-535).
HttpAnswer(status, body) ==
  /\ fb.pc = "http"
  /\ LET threw == IF status # 200 THEN MsgHttpStatus(status)
                  ELSE ReceivedThrows(body, fb.name, fb.variant)
         f == IF status = 200 THEN NotesMismatch(fb, body) ELSE fb
     IN fb' = IF threw = NoError
                THEN [f EXCEPT !.pc = "returned", !.result = body]
                ELSE [f EXCEPT !.pc = "thrown", !.error = MsgHttpFailed(fb.name, fb.variant, threw)]
  /\ UNCHANGED <<dvars, rt, pf, ac>>

\* The HTTP request rejects (lines 508, 533-535).
HttpReject ==
  /\ fb.pc = "http"
  /\ fb' = [fb EXCEPT !.pc = "thrown", !.error = MsgHttpFailed(fb.name, fb.variant, MsgNetwork)]
  /\ UNCHANGED <<dvars, rt, pf, ac>>

\* --------------------------------- ArtifactDownloaderFetch (plain HTTP)
\* const maxRetries = 5 of ArtifactDownloaderFetch.fetchFromIPFS.
PlainMaxRetries == 5

\* Math.pow(2, attempt) * 1000 (lines 287, 316).
PlainDelay(attempt) == Pow2(attempt) * 1000

\* The error thrown after the loop (lines 323-327).
PlainWrapped(name, v, msg) ==
  <<Txt("IPFS fetch failed for "), Txt(name), Txt(" (")>> \o [i \in 1..Len(v) |-> Txt(v[i])]
    \o <<Txt(") after "), Num(PlainMaxRetries + 1), Txt(" attempts: ")>>
    \o (IF msg = NoError THEN <<Txt("Unknown error")>> ELSE msg)

\* The gateway URLs of ArtifactDownloaderFetch, in order (lines 19-23).
IPFS_GATEWAYS == <<"https://ipfs-lb.com">>

\* An index that is advanced without wrapping around.
GetNextGatewayIndexUnwrapped(i) == i + 1

\* #getNextGatewayUrl (line 230): the index after a gateway was taken.
GetNextGatewayIndex(i) == (i + 1) % Len(IPFS_GATEWAYS)

\* #getNextGatewayUrl (lines 228-232): the gateway at the index is taken
\* and the index advanced.
PlainTakeGateway(p) ==
  [p EXCEPT !.gatewayLog = Append(@, p.currentGatewayIndex),
            !.currentGatewayIndex = GetNextGatewayIndex(@)]

\* The head of the for loop (lines 274-281): fetch, or the throw after it.
PlainLoopHead(p) ==
  IF p.attempt <= PlainMaxRetries
    THEN PlainTakeGateway([p EXCEPT !.pc = "fetch", !.netCalls = @ + 1])
    ELSE [p EXCEPT !.pc = "failed", !.error = PlainWrapped(p.name, p.variant, p.lastError)]

\* The catch block (lines 312-320): every error is kept and, short of the
\* last attempt, followed by a delay.
PlainCaught(p, msg) ==
  IF p.attempt < PlainMaxRetries
    THEN [p EXCEPT !.lastError = msg, !.pc = "delay", !.delays = Append(@, PlainDelay(p.attempt))]
    ELSE PlainLoopHead([p EXCEPT !.lastError = msg, !.attempt = @ + 1])

\* fetchFromIPFS is called (lines 242-253): store.exists on the storage key.
PlainFetchFromIPFS(v, name) ==
  /\ pf.pc = "idle"
  /\ pf' = [IdlePlain EXCEPT !.pc = "exists", !.name = name, !.variant = v,
                             !.storePath = ArtifactDownloadsPath(name, v),
                             !.currentGatewayIndex = pf.currentGatewayIndex,
                             !.gatewayLog = pf.gatewayLog, !.others = pf.others]
  /\ UNCHANGED <<dvars, fb, rt, ac>>

\* A request attempt of another fetchFromIPFS call on the same downloader
\* (lines 275-281), before, between or after the steps of this one.
PlainOtherAttempt ==
  /\ pf.others < MaxOtherAttempts
  /\ pf' = PlainTakeGateway([pf EXCEPT !.others = @ + 1])
  /\ UNCHANGED <<dvars, fb, rt, ac>>

\* store.exists answers (lines 253-281).
PlainExistsReturn ==
  /\ pf.pc = "exists"
  /\ pf' = IF StoreExists(pf.storePath) THEN [pf EXCEPT !.pc = "get"] ELSE PlainLoopHead(pf)
  /\ UNCHANGED <<dvars, fb, rt, ac>>

\* A store.get whose empty answer sends the call on to the gateway.
PlainGetReturnFallingBack ==
  /\ pf.pc = "get"
  /\ LET cachedData == StoreGet(pf.storePath)
     IN pf' = IF cachedData = Null
                THEN PlainLoopHead(pf)
                ELSE [pf EXCEPT !.pc = "done", !.result = cachedData]
  /\ UNCHANGED <<dvars, fb, rt, ac>>

\* store.get answers (lines 258-262).
PlainGetReturn ==
  /\ pf.pc = "get"
  /\ LET cachedData == StoreGet(pf.storePath)
     IN pf' = IF cachedData = Null
                THEN [pf EXCEPT !.pc = "failed", !.error = MsgReadCached(pf.storePath)]
                ELSE [pf EXCEPT !.pc = "done", !.result = cachedData]
  /\ UNCHANGED <<dvars, fb, rt, ac>>

\* A 2xx answer whose body is read (lines 281-307): decompressed, and
\* store.store is called with the outcome.
PlainFetchOk(body) ==
  /\ pf.pc = "fetch"
  /\ pf' = IF DecompressThrows(body, pf.name)
             THEN PlainCaught([pf EXCEPT !.received = body], MsgDecompress)
             ELSE [pf EXCEPT !.pc = "store", !.received = body,
                             !.data = DecompressArtifact(body, pf.name)]
  /\ UNCHANGED <<dvars, fb, rt, ac>>

\* A non-2xx answer (lines 283-293).
PlainFetchStatus(statusCode) ==
  /\ pf.pc = "fetch"
  /\ pf' = IF statusCode \in {429, 503, 504} /\ pf.attempt < PlainMaxRetries
             THEN [pf EXCEPT !.pc = "delay", !.delays = Append(@, PlainDelay(pf.attempt))]
             ELSE PlainCaught(pf, MsgFailedToFetch(statusCode))
  /\ UNCHANGED <<dvars, fb, rt, ac>>

\* fetch or the reading of the body rejects (lines 281, 295).
PlainFetchNetworkError ==
  /\ pf.pc = "fetch"
  /\ pf' = PlainCaught(pf, MsgNetwork)
  /\ UNCHANGED <<dvars, fb, rt, ac>>

\* store.store resolves (lines 303-311).
PlainStoreReturn ==
  /\ pf.pc = "store"
  /\ store' = StorePut(pf.storePath, pf.data)
  /\ pf' = [pf EXCEPT !.pc = "done", !.wrote = TRUE, !.result = pf.data]
  /\ UNCHANGED <<rt, fb, ac, stopLog, maxRetries, useNativeArtifacts, requested, verifiedFetch, created,
                 stopped, factoryCalls, task, dl, prev, stopPc, stopPc2, calls, events, lone>>

\* store.store rejects (lines 303, 312).
PlainStoreFail ==
  /\ pf.pc = "store"
  /\ pf' = PlainCaught(pf, MsgStoreWrite)
  /\ UNCHANGED <<dvars, fb, rt, ac>>

\* The backoff timer fires (lines 289-290, 318): the next iteration.
PlainDelayDone ==
  /\ pf.pc = "delay"
  /\ pf' = PlainLoopHead([pf EXCEPT !.attempt = @ + 1])
  /\ UNCHANGED <<dvars, fb, rt, ac>>

\* ------------------------------------------------------- ArtifactCache
\* getCacheKey (part_003 28-30): `${rootCid}-${artifactVariantString}-${artifactName}`.
GetCacheKey(rootCid, v, name) == rootCid \o <<"-">> \o v \o <<"-", name>>

\* Map.get: the value under the key, Null standing for undefined.
MapGet(c, key) == IF \E e \in c : e[1] = key THEN (CHOOSE e \in c : e[1] = key)[2] ELSE Null

\* A Map that makes room by dropping an entry once it holds two.
MapSetEvicting(c, key, data) ==
  LET others == {e \in c : e[1] # key}
      kept == IF Cardinality(others) >= 2
                THEN others \ {CHOOSE e \in others : TRUE} ELSE others
  IN kept \cup {<<key, data>>}

\* Map.set: the entry under the key is replaced or added.
MapSet(c, key, data) == {e \in c : e[1] # key} \cup {<<key, data>>}

\* ArtifactCache.get (lines 39-42).
CacheGet(rootCid, v, name) == MapGet(ac.cache, GetCacheKey(rootCid, v, name))

\* ArtifactCache.size (lines 69-71).
CacheSize == Cardinality(ac.cache)

\* ArtifactCache.set (lines 51-55).
CacheSet(rootCid, v, name, data) ==
  /\ LET key == GetCacheKey(rootCid, v, name)
     IN ac' = [cache |-> MapSet(ac.cache, key, data),
               keys |-> ac.keys \cup {key},
               last |-> [op |-> "set", key |-> key, data |-> data]]
  /\ UNCHANGED <<dvars, fb, pf, rt>>

\* ArtifactCache.clear (lines 60-63).
CacheClear ==
  /\ ac' = [cache |-> {}, keys |-> {}, last |-> [op |-> "clear", key |-> <<>>, data |-> Null]]
  /\ UNCHANGED <<dvars, fb, pf, rt>>

\* Root strings and variant strings a caller passes to the cache; the key
\* of ("Qm-01x01", "02x02") is also the key of ("Qm", "01x01-02x02").
CacheRoots == {<<"Qm">>, <<"Qm", "-", "01x01">>}
CacheVariants == {<<"02x02">>, <<"01x01", "-", "02x02">>}
CacheData == {Bytes(FALSE, "net"), Bytes(FALSE, "forged")}

\* ------------------------------------------------------- specifications
Next ==
  \/ FetchFromIPFS(requested, VKEY)
  \/ DownloadArtifactsForVariant(requested)
  \/ \E t \in Slots : ExistsReturn(t)
  \/ \E t \in Slots : GetReturn(t)
  \/ \E t \in Slots : InitReturn(t)
  \/ \E t \in Slots : InitFail(t)
  \/ \E t \in Slots : FetchOk(t, NetworkBytes(task[t].name))
  \/ \E t \in Slots, statusCode \in {404, 503} : FetchStatus(t, statusCode)
  \/ \E t \in Slots : StoreReturn(t)
  \/ \E t \in Slots : DelayDone(t)
  \/ Stop
  \/ StopReturn

Spec == Init /\ [][Next]_vars

NextLone ==
  \/ \E name \in {VKEY, ZKEY} : FetchFromIPFS(requested, name)
  \/ \E t \in Slots : ExistsReturn(t)
  \/ \E t \in Slots : GetReturn(t)
  \/ \E t \in Slots : InitReturn(t)
  \/ \E t \in Slots : InitFail(t)
  \/ \E t \in Slots : FetchOk(t, NetworkBytes(task[t].name))
  \/ \E t \in Slots : FetchOk(t, JunkBytes)
  \/ \E t \in Slots, statusCode \in {404, 429, 503} : FetchStatus(t, statusCode)
  \/ \E t \in Slots : FetchNetworkError(t)
  \/ \E t \in Slots : StoreReturn(t)
  \/ \E t \in Slots : StoreFail(t)
  \/ \E t \in Slots : DelayDone(t)
  \/ Stop
  \/ StopReturn
  \/ StopDuringStop
  \/ StopDuringStopReturn

SpecLone == InitLone /\ [][NextLone]_vars

\* baseDelayMs of the options: the default and a small one.
BaseDelays == {DefaultBaseDelayMs, 2}

RetryMessages ==
  {MsgRetryableStatus(503), MsgUpstreamStatus(404), MsgFailedToFetch(404), MsgNetwork}

NextRetry ==
  \/ \E mr \in ((-1)..MaxRetriesCfg) \cup {DefaultMaxRetries}, handler \in RetryHandlers,
        baseDelayMs \in BaseDelays, addJitter \in BOOLEAN :
       WithRetry(mr, handler, baseDelayMs, addJitter)
  \/ FnReturn
  \/ \E msg \in RetryMessages, random \in JitterSamples(rt.baseDelayMs) : FnThrow(msg, random)
  \/ RetryDelayDone

SpecRetry == InitRetry /\ [][NextRetry]_vars

\* The hash-validating fetch on its own: no downloader call is made.
NextFallback ==
  \/ \E v \in {<<"01x01">>, <<"02x02">>}, name \in ArtifactName : FetchFromIPFSWithFallback(v, name)
  \/ \E body \in {NetworkBytes(fb.name), ForgedBytes(fb.name), JunkBytes} : IpfsAnswer(body)
  \/ \E msg \in {MsgTimeout, MsgNetwork} : IpfsReject(msg)
  \/ \E status \in {200, 404}, body \in {NetworkBytes(fb.name), ForgedBytes(fb.name), JunkBytes} :
       HttpAnswer(status, body)
  \/ HttpReject

SpecFallback == InitRetry /\ [][NextFallback]_vars

\* The plain-HTTP downloader on its own, on an empty or a seeded store.
InitPlain ==
  /\ Constructed
  /\ maxRetries = DefaultMaxRetries
  /\ useNativeArtifacts = FALSE
  /\ requested = <<"01x01">>
  /\ store \in {{}, {<<ArtifactDownloadsPath(VKEY, requested), NetworkBytes(VKEY)>>},
                {<<ArtifactDownloadsPath(VKEY, requested), Null>>}}
  /\ lone = TRUE

NextPlain ==
  \/ \E name \in {VKEY, ZKEY} : PlainFetchFromIPFS(requested, name)
  \/ PlainExistsReturn
  \/ PlainGetReturn
  \/ \E body \in {NetworkBytes(pf.name), ForgedBytes(pf.name), JunkBytes} : PlainFetchOk(body)
  \/ \E statusCode \in {404, 503} : PlainFetchStatus(statusCode)
  \/ PlainFetchNetworkError
  \/ PlainStoreReturn
  \/ PlainStoreFail
  \/ PlainDelayDone
  \/ PlainOtherAttempt

SpecPlain == InitPlain /\ [][NextPlain]_vars

\* One of the two downloaders is used on a store that may hold an entry
\* without bytes: the calls of a run all go to the same downloader.
NextRead ==
  \/ pf = IdlePlain /\ NextLone
  \/ calls = 0 /\ events = 0 /\ NextPlain

SpecRead == InitPlain /\ [][NextRead]_vars

\* One call whose collaborators always answer: every pending store call,
\* createVerifiedFetch call, transport request and backoff timer of an
\* activation gets one of its answers, failing answers without limit.
InitLive ==
  /\ Constructed
  /\ maxRetries \in {0, MaxRetriesCfg}
  /\ useNativeArtifacts = FALSE
  /\ requested = <<"01x01">>
  /\ store \in {{}, {<<ArtifactDownloadsPath(ZKEY, requested), Null>>}}
  /\ lone = TRUE

Answer(t) ==
  \/ ExistsReturn(t)
  \/ GetReturn(t)
  \/ InitReturn(t)
  \/ InitFail(t)
  \/ FetchOk(t, NetworkBytes(task[t].name))
  \/ FetchStatus(t, 503)
  \/ StoreReturn(t)
  \/ StoreFail(t)
  \/ DelayDone(t)

PlainAnswer ==
  \/ PlainExistsReturn
  \/ PlainGetReturn
  \/ PlainFetchOk(NetworkBytes(pf.name))
  \/ PlainFetchStatus(503)
  \/ PlainStoreReturn
  \/ PlainStoreFail
  \/ PlainDelayDone

NextLive ==
  \/ calls = 0 /\ pf = IdlePlain /\ FetchFromIPFS(requested, VKEY)
  \/ calls = 0 /\ pf = IdlePlain /\ DownloadArtifactsForVariant(requested)
  \/ \E t \in Slots : Answer(t)
  \/ calls = 0 /\ \E name \in {VKEY, ZKEY} : PlainFetchFromIPFS(requested, name)
  \/ PlainAnswer

SpecLive ==
  /\ InitLive
  /\ [][NextLive]_vars
  /\ \A t \in Slots : WF_vars(Answer(t))
  /\ WF_vars(PlainAnswer)

\* Downloads one after the other, for a variant of either family, with no
\* failing answer.
InitFamily ==
  /\ Constructed
  /\ maxRetries = 0
  /\ useNativeArtifacts \in BOOLEAN
  /\ requested \in FamilyVariants
  /\ store = {}
  /\ lone = TRUE

NextFamily ==
  \/ DownloadArtifactsForVariant(requested)
  \/ \E t \in Slots : ExistsReturn(t)
  \/ \E t \in Slots : GetReturn(t)
  \/ \E t \in Slots : InitReturn(t)
  \/ \E t \in Slots : FetchOk(t, NetworkBytes(task[t].name))
  \/ \E t \in Slots : StoreReturn(t)

SpecFamily == InitFamily /\ [][NextFamily]_vars

\* An ArtifactCache on its own.
NextCache ==
  \/ \E rootCid \in CacheRoots, v \in CacheVariants, name \in {VKEY, ZKEY}, data \in CacheData :
       CacheSet(rootCid, v, name, data)
  \/ CacheClear

SpecCache == InitRetry /\ [][NextCache]_vars

\* ------------------------------------------------------------ properties
\* C1: whenever store.exists answers true and store.get returns bytes,
\* fetchFromIPFS returns exactly the bytes the store holds under the key and
\* makes no transport initialization, no transport call and no store write.
C1_StoreHitReturnsStoredBytes ==
  \A t \in Slots : task[t].hit =>
    /\ task[t].inits = 0
    /\ task[t].invocations = 0
    /\ task[t].netCalls = 0
    /\ ~task[t].wrote
    /\ task[t].pc = "done" =>
         /\ task[t].result = task[t].read
         /\ <<task[t].storePath, task[t].result>> \in store

C1_Witness ==
  \E t \in Slots : task[t].hit /\ task[t].pc = "done" /\ task[t].result = Bytes(FALSE, "net")

\* C2: when downloadArtifactsForVariant is called twice in sequence and the
\* first call succeeded, the second call makes no transport call and yields
\* the same artifacts as the first.
C2_SecondDownloadFromStore ==
  (prev.state = "ok" /\ prev.variant = dl.variant) =>
    /\ dl.netCalls = 0
    /\ dl.state = "ok" => dl.paths = prev.paths

C2_Witness ==
  /\ prev.state = "ok" /\ dl.state = "ok" /\ prev.variant = dl.variant
  /\ prev.netCalls = 3
  /\ \A t \in Slots : task[t].grp = "dl" /\ task[t].hit

\* C3: when the operation throws an error for which shouldRetry returns
\* false, withRetry does not invoke the operation again and throws at once:
\* the invocations stop at the one that produced the error.
C3_RefusedErrorEndsTheCall ==
  rt.refusedAt # -1 => rt.invocations = rt.refusedAt /\ rt.pc = "thrown"

\* C4: on a store miss, a non-2xx status other than 429, 503 and 504 is
\* classified as not retryable, and the call fails after that one transport
\* call without a backoff delay.
C4_OtherStatusIsTerminal ==
  \A t \in Slots : task[t].lastError = MsgFailedToFetch(404) =>
    /\ ~IpfsRetryHandler(task[t].lastError)
    /\ task[t].pc = "failed"

\* C5: withRetry invokes the operation at most maxRetries + 1 times for every
\* maxRetries >= 0; with the default maxRetries a fetchFromIPFS store miss
\* makes at most 6 transport calls.
C5_AtMostMaxRetriesPlusOne ==
  /\ \A t \in Slots :
       /\ task[t].invocations <= maxRetries + 1
       /\ task[t].netCalls <= task[t].invocations
       /\ task[t].delays <= maxRetries
  /\ rt.maxRetries >= 0 => rt.invocations <= rt.maxRetries + 1

C5_Witness ==
  \E t \in Slots :
    /\ maxRetries = DefaultMaxRetries
    /\ task[t].pc = "failed"
    /\ task[t].netCalls = DefaultMaxRetries + 1

\* C6: on a store miss, when decompression of the fetched bytes fails, the
\* call fails at once: no further transport call and no retry delay.
C6_DecompressionFailureIsTerminal ==
  \A t \in Slots : task[t].lastError = MsgDecompress => task[t].pc = "failed"

\* C7: between stops the transport factory is invoked at most once, for any
\* interleaving of fetchFromIPFS calls that miss the store, so no instance
\* created is overwritten and left unstopped.
C7_TransportInitializedOnce ==
  /\ factoryCalls <= 1
  /\ (1..created) \ (stopped \cup {verifiedFetch}) = {}

\* C8: downloadArtifactsForVariant with a string that is in neither variant
\* list fails with an invalid-variant error before any store call, transport
\* initialization or transport call.
C8_DownloadRejectsInvalidVariant ==
  (dl.state # "none" /\ ~IsValidArtifactVariant(dl.variant)) =>
    /\ dl.state = "failed"
    /\ \A t \in Slots : task[t].grp = "dl" =>
         /\ task[t].pc = "failed"
         /\ task[t].storePath = <<>>
         /\ task[t].inits = 0
         /\ task[t].netCalls = 0

\* C9: fetchFromIPFS called directly for vkey with an invalid variant string
\* validates the variant first: it fails with an invalid-variant error and
\* makes no transport initialization and no transport call.
C9_FetchRejectsInvalidVariant ==
  \A t \in Slots :
    (task[t].grp = "direct" /\ task[t].name = VKEY /\ ~IsValidArtifactVariant(task[t].variant)) =>
      /\ task[t].inits = 0
      /\ task[t].netCalls = 0
      /\ task[t].pc \in Settled => task[t].pc = "failed"

\* C10: a variant string containing a path separator is rejected before a
\* storage path is built, so no store call has a key derived from it and
\* every key passed to the store lies under the artifacts-v2.1 root.
C10_StoreKeysUnderRoot ==
  \A t \in Slots :
    /\ (\E i \in 1..Len(task[t].variant) : task[t].variant[i] = Sep) =>
         task[t].storePath = <<>> /\ task[t].pc \in {"idle", "failed"}
    /\ task[t].storePath # <<>> => UnderRoot(task[t].storePath)

\* C11: if the fetch of any one of the three kinds fails, the whole
\* downloadArtifactsForVariant call fails and returns no result, whatever
\* became of the other two fetches.
C11_OneFailureFailsTheDownload ==
  (\E t \in Slots : task[t].grp = "dl" /\ task[t].pc = "failed") =>
    dl.state = "failed" /\ dl.paths = <<>>

C11_Witness ==
  /\ dl.state = "failed"
  /\ \E t \in Slots : task[t].grp = "dl" /\ task[t].pc = "failed" /\ task[t].wrapped
  /\ \E t \in Slots : task[t].grp = "dl" /\ task[t].pc = "done" /\ task[t].wrote

\* C12: whenever downloadArtifactsForVariant returns, the store holds an
\* entry for the vkey, the zkey and the selected program key of the variant,
\* and the three locations returned are exactly those keys.
C12_SuccessMeansAllThreeStored ==
  dl.state = "ok" =>
    /\ dl.paths = <<ArtifactDownloadsPath(VKEY, dl.variant),
                    ArtifactDownloadsPath(ZKEY, dl.variant),
                    ArtifactDownloadsPath(IF useNativeArtifacts THEN DAT ELSE WASM, dl.variant)>>
    /\ \A i \in 1..3 : \E e \in store : e[1] = dl.paths[i]

C12_Witness ==
  /\ dl.state = "ok"
  /\ useNativeArtifacts
  /\ \A t \in Slots : task[t].grp = "dl" /\ task[t].wrote

\* C13: for each storage key store.store completes at most once: no two
\* fetchFromIPFS activations both write the same key.
C13_KeyWrittenAtMostOnce ==
  \A t, u \in Slots :
    (t # u /\ task[t].wrote /\ task[u].wrote) => task[t].storePath # task[u].storePath

C15_StopIdempotent ==
  /\ created = 0 => stopLog = <<>> /\ stopPc = 0 /\ verifiedFetch = 0
  /\ \A i, j \in 1..Len(stopLog) : stopLog[i] = stopLog[j] => i = j
  /\ stopPc # 0 => \E i \in 1..Len(stopLog) : stopLog[i] = stopPc
  /\ \A i \in 1..Len(stopLog) : stopLog[i] \in 1..created

C17_NoCallOnStoppedInstance ==
  [][\A t \in Slots :
       /\ task'[t].netCalls > task[t].netCalls => task'[t].inst \notin stopped
       /\ task'[t].pc = "failed" => ~task'[t].wrote]_vars

\* C18: when all attempts of a fetchFromIPFS store miss have failed, the
\* error raised names the kind and the variant, carries the message of the
\* error of the last attempt, and reports an attempt count equal to the
\* number of times the operation was invoked.
C18_ExhaustionError ==
  [][\A t \in Slots : (task'[t].wrapped /\ ~task[t].wrapped) =>
       LET e == task'[t].error
           v == task'[t].variant
           cause == SubSeq(e, Len(v) + 7, Len(e))
       IN /\ task'[t].pc = "failed"
          /\ SubSeq(e, 1, Len(v) + 4) =
               <<Txt("IPFS fetch failed for "), Txt(task'[t].name), Txt(" (")>>
                 \o [i \in 1..Len(v) |-> Txt(v[i])] \o <<Txt(") after ")>>
          /\ e[Len(v) + 5] = Num(task'[t].invocations)
          /\ FetchNetworkError(t) => cause = MsgNetwork
          /\ FetchOk(t, JunkBytes) => cause = MsgDecompress
          /\ StoreFail(t) => cause = MsgStoreWrite
          /\ DelayDone(t) => cause = MsgNotInitialized
          /\ FetchStatus(t, 404) => cause = MsgFailedToFetch(404)
          /\ \A c \in {429, 503} : FetchStatus(t, c) => cause = MsgRetryableStatus(c)]_vars

\* The store write of the last attempt fails after a status error of the first.
C18_Witness ==
  \E t \in Slots :
    /\ task[t].wrapped /\ maxRetries = 1 /\ task[t].netCalls = 2 /\ task[t].delays = 1
    /\ task[t].error = WrappedMessage(task[t].name, task[t].variant, MsgStoreWrite)

\* C19: every error fetchFromIPFS hands to its caller, a failed transport
\* initialization and a failed read of an existing store entry included, is
\* wrapped with the artifact kind and the variant.
C19_EveryErrorWrapped ==
  \A t \in Slots : task[t].pc = "failed" =>
    /\ task[t].wrapped
    /\ \E cause \in {task[t].lastError, MsgInitFailed, MsgReadCached(task[t].storePath),
                     MsgTraversal(task[t].variant)} :
         task[t].error = WrappedMessage(task[t].name, task[t].variant, cause)

\* C20: when the digest of the decompressed bytes differs from the reference
\* digest, the operation fails at once with the mismatch error: no further
\* fetch, by IPFS or by the HTTP gateway, is issued for the artifact.
C20_MismatchIsFinal ==
  fb.mismatchAt # -1 =>
    /\ fb.ipfsCalls + fb.httpCalls = fb.mismatchAt
    /\ fb.pc = "thrown"

\* C21: with the plain-HTTP downloader, every zkey, wasm or dat entry written
\* to the store has the reference digest of its kind: bytes that fail or skip
\* validation are never stored.
C21_StoredOnlyAfterValidation ==
  (pf.wrote /\ pf.name # VKEY) =>
    Sha256(StoreGet(pf.storePath)) = GetExpectedArtifactHash(pf.name)

\* C22: a download fetches, stores and returns one program representation,
\* dat with useNativeArtifacts and wasm without, never the other one; the
\* returned program location ends in the name of that representation.
C22_OneProgramRepresentation ==
  LET mine == IF useNativeArtifacts THEN DAT ELSE WASM
      other == IF useNativeArtifacts THEN WASM ELSE DAT
  IN /\ \A t \in Slots : (task[t].grp = "dl" /\ task[t].pc # "idle") =>
            /\ task[t].name # other
            /\ t = 3 => task[t].name = mine
            /\ task[t].storePath # <<>> => task[t].storePath[Len(task[t].storePath)] # other
     /\ \A e \in store : e[1][Len(e[1])] # other
     /\ dl.state = "ok" =>
            /\ dl.paths[3][Len(dl.paths[3])] = mine
            /\ \A i \in 1..3 : dl.paths[i][Len(dl.paths[i])] # other

\* A download with useNativeArtifacts has fetched and stored dat and returned.
C22_Witness ==
  /\ useNativeArtifacts
  /\ dl.state = "ok"
  /\ task[3].name = DAT /\ task[3].wrote
  /\ StoreExists(ArtifactDownloadsPath(DAT, dl.variant))

\* C23: within one fetchFromIPFS call, store.exists is called on the storage
\* key before the transport is initialized and before any transport fetch:
\* while the check is pending the call has done neither, and a step that
\* initializes or fetches is taken by a call whose check was made.
C23_ExistsBeforeNetwork ==
  [][\A t \in Slots :
       /\ (task'[t].inits > task[t].inits \/ task'[t].netCalls > task[t].netCalls)
            => task[t].pc \in Running
       /\ task'[t].pc = "exists" => task'[t].inits = 0 /\ task'[t].netCalls = 0
       /\ (task[t].pc \notin Running /\ task'[t].pc \in Running) => task'[t].pc = "exists"]_vars

\* A call that missed the store has initialized the transport and fetches.
C23_Witness ==
  \E t \in Slots : task[t].pc = "fetch" /\ ~task[t].hit /\ task[t].inits = 1 /\ task[t].netCalls = 1

\* C24: the bytes handed to store.store are the output of the decompression
\* step of the kind applied to the body of a successful response: never
\* compressed bytes, and never anything of a non-2xx answer.
C24_StoredBytesAreDecompressed ==
  \A t \in Slots : (task[t].pc = "store" \/ task[t].wrote) =>
    /\ task[t].name # VKEY => ~task[t].data.comp
    /\ \E body \in {NetworkBytes(task[t].name), JunkBytes} :
         /\ ~DecompressThrows(body, task[t].name)
         /\ task[t].data = IF task[t].name = VKEY THEN body ELSE Bytes(FALSE, body.body)
    /\ task[t].wrote => StoreGet(task[t].storePath) = task[t].data

\* A zkey fetched compressed has been written decompressed.
C24_Witness ==
  \E t \in Slots :
    /\ task[t].name = ZKEY /\ task[t].wrote
    /\ NetworkBytes(ZKEY).comp
    /\ StoreGet(task[t].storePath) = Bytes(FALSE, NetworkBytes(ZKEY).body)

\* C25: calls for the same storage key are not de-duplicated: every call
\* that missed the store and completed has made its own transport fetch and
\* its own store write, so two calls that both start before either has
\* written fetch twice and write twice.
C25_NoSingleFlight ==
  \A t \in Slots : (task[t].pc = "done" /\ ~task[t].hit) =>
    task[t].netCalls >= 1 /\ task[t].wrote

\* Two overlapping calls for one key have both fetched and both written.
C25_Witness ==
  \E t1, t2 \in Slots :
    /\ t1 # t2
    /\ task[t1].storePath # <<>> /\ task[t1].storePath = task[t2].storePath
    /\ task[t1].wrote /\ task[t2].wrote
    /\ task[t1].netCalls >= 1 /\ task[t2].netCalls >= 1

\* C26: when the operation fails with a retryable error on its first n
\* calls (n <= maxRetries) and then succeeds, withRetry returns after n + 1
\* invocations and n delays; the k-th delay (from 0) is at least
\* 2^k * baseDelayMs and no delay is shorter than the one before it.
C26_SuccessAfterRetries ==
  (rt.pc = "returned" /\ rt.allRetryable /\ rt.failures <= rt.maxRetries) =>
    /\ rt.invocations = rt.failures + 1
    /\ Len(rt.delayLog) = rt.failures
    /\ \A i \in 1..Len(rt.delayLog) :
         /\ rt.delayLog[i].delay >= (2 ^ (i - 1)) * rt.baseDelayMs
         /\ i > 1 => rt.delayLog[i].delay >= rt.delayLog[i - 1].delay

\* Two retryable failures, then success, with jitter drawn high then low.
C26_Witness ==
  /\ rt.pc = "returned" /\ rt.allRetryable /\ rt.failures = 2
  /\ rt.addJitter /\ Len(rt.delayLog) = 2
  /\ rt.delayLog[1].delay = rt.baseDelayMs + (rt.baseDelayMs - 1)
  /\ rt.delayLog[2].delay = 2 * rt.baseDelayMs

\* C27: calculateRetryDelay(k, baseDelay, jitter) is 2^k * baseDelay without
\* jitter and lies in [2^k * baseDelay, 2^k * baseDelay + baseDelay) with
\* jitter, for every attempt index k; there is no cap.
C27_DelayFormula ==
  \A i \in 1..Len(rt.delayLog) :
    LET k == rt.delayLog[i].attempt
        d == rt.delayLog[i].delay
    IN IF rt.addJitter
         THEN (2 ^ k) * rt.baseDelayMs <= d /\ d < (2 ^ k) * rt.baseDelayMs + rt.baseDelayMs
         ELSE d = (2 ^ k) * rt.baseDelayMs

\* The delay of the fifth attempt (k = 4) has been computed, without jitter.
C27_Witness ==
  /\ ~rt.addJitter /\ rt.baseDelayMs = DefaultBaseDelayMs
  /\ \E i \in 1..Len(rt.delayLog) :
       rt.delayLog[i].attempt = 4 /\ rt.delayLog[i].delay = 16 * DefaultBaseDelayMs

\* C28: ipfsRetryHandler answers retryable exactly for the errors that carry
\* status 429, 503 or 504 or carry no status code; an error carrying any
\* other status code is answered non-retryable.
C28_IpfsRetryHandlerClassification ==
  LET msg == rt.lastError
      carried == {msg[i].num : i \in {j \in 1..Len(msg) : msg[j].num >= 0}}
  IN (rt.shouldRetry = "ipfs" /\ msg # NoError) =>
       (ShouldRetry("ipfs", msg) <=> carried \subseteq RETRYABLE_STATUS_CODES)

\* C29: for zkey, wasm and dat the bytes a fetch hands to its caller are the
\* decompressed ones, never the compressed bytes as received.
C29_ReturnedBytesDecompressed ==
  (fb.pc = "returned" /\ fb.name # VKEY) => ~fb.result.comp

C31_GatewayRotation ==
  /\ pf.currentGatewayIndex \in 0..(Len(IPFS_GATEWAYS) - 1)
  /\ Len(pf.gatewayLog) = pf.netCalls + pf.others
  /\ \A i \in 1..Len(pf.gatewayLog) : pf.gatewayLog[i] = (i - 1) % Len(IPFS_GATEWAYS)
  /\ pf.currentGatewayIndex = Len(pf.gatewayLog) % Len(IPFS_GATEWAYS)

\* Two retries of one call with an attempt of another call in between.
C31_Witness ==
  /\ pf.netCalls = 3 /\ pf.others = 1 /\ pf.pc = "fetch"
  /\ Len(pf.gatewayLog) = 4

\* C32: a variant string belongs to the privacy-proof family exactly when it
\* starts with the PPOI prefix: downloadArtifactsForVariant then uses the
\* privacy-proof root CID, path templates and the 'ppoi-nov-2-23' storage
\* sub-root, and the standard ones otherwise; the three never disagree.
C32_FamilyByPrefix ==
  LET v == dl.variant
      ppoi == Len(v) >= 1 /\ v[1] = ARTIFACT_VARIANT_STRING_PPOI_PREFIX
  IN dl.state # "none" =>
       /\ dl.cidRoot = IF ppoi THEN PPOI_ARTIFACTS_CID ELSE RAILGUN_ARTIFACTS_CID_ROOT
       /\ \A t \in Slots : task[t].grp = "dl" =>
            /\ task[t].storePath # <<>> =>
                 (ppoi <=> SubSeq(task[t].storePath, 1, 4) = <<"artifacts-v2.1", Sep, "ppoi-nov-2-23", Sep>>)
            /\ task[t].ipfsPath # <<>> =>
                 (ppoi <=> SubSeq(task[t].ipfsPath, 1, Len(v)) = v)

\* C33: after set(root, variant, kind, data), get of the same key returns
\* data until clear() is called or the key is set again: no other call
\* changes what get returns. size() is the number of distinct keys set since
\* the last clear(); after clear() it is 0 and every get returns undefined.
C33_CacheKeepsEntries ==
  [][/\ \A rootCid \in CacheRoots, v \in CacheVariants, name \in {VKEY, ZKEY} :
          LET key == GetCacheKey(rootCid, v, name)
          IN /\ (ac'.last.op = "set" /\ ac'.last.key = key)
                  => MapGet(ac'.cache, key) = ac'.last.data
             /\ ac'.last.op = "clear" => MapGet(ac'.cache, key) = Null
             /\ ~(ac'.last.op = "clear" \/ (ac'.last.op = "set" /\ ac'.last.key = key))
                  => MapGet(ac'.cache, key) = CacheGet(rootCid, v, name)
     /\ Cardinality(ac'.cache) = Cardinality(ac'.keys)
     /\ ac'.last.op = "clear" => Cardinality(ac'.cache) = 0]_vars

\* Three keys are held, one of them set a second time with other data.
C33_Witness ==
  /\ CacheSize = 3
  /\ CacheGet(<<"Qm">>, <<"02x02">>, VKEY) = Bytes(FALSE, "forged")
  /\ CacheGet(<<"Qm">>, <<"02x02">>, ZKEY) = Bytes(FALSE, "net")
  /\ ac.last = [op |-> "set", key |-> GetCacheKey(<<"Qm">>, <<"01x01", "-", "02x02">>, VKEY),
                data |-> Bytes(FALSE, "net")]

\* C34: when kind-fetches of one downloadArtifactsForVariant call fail, the
\* error the call rejects with is the error of the kind-fetch that failed
\* first, and its message names that kind and the variant.
C34_FirstFailureSurfaced ==
  [][(dl.state = "running" /\ dl'.state = "failed") =>
       \E t \in Slots :
         /\ task[t].pc # "failed" /\ task'[t].pc = "failed"
         /\ \A u \in Slots : task[u].pc # "failed"
         /\ dl'.failedName = task'[t].name
         /\ dl'.error = task'[t].error
         /\ \E i \in 1..Len(dl'.error) : dl'.error[i] = Txt(task'[t].name)
         /\ \A j \in 1..Len(dl.variant) :
              \E i \in 1..Len(dl'.error) : dl'.error[i] = Txt(dl.variant[j])]_vars

\* C35: a fetchFromIPFS call that fails has completed no store.store: the
\* only step that changes the store is the store.store of a call that then
\* returns its bytes, and it changes the entry of that call's key alone.
C35_FailedCallLeavesStore ==
  [][/\ store' # store =>
          \E t \in Slots :
            /\ task[t].pc = "store" /\ task'[t].pc = "done"
            /\ \A e \in (store' \ store) \cup (store \ store') : e[1] = task[t].storePath
     /\ \A t \in Slots : (task[t].pc \in Running /\ task'[t].pc = "failed") =>
          /\ store' = store
          /\ ~task'[t].wrote]_vars

\* A call whose store.store rejected has failed and its key is still absent.
C35_Witness ==
  \E t \in Slots :
    /\ task[t].pc = "failed" /\ task[t].lastError = MsgStoreWrite
    /\ task[t].netCalls >= 1
    /\ ~StoreExists(task[t].storePath)

\* C36: when store.exists reported the key present and store.get answers
\* with no bytes, fetchFromIPFS of either downloader fails with the read
\* error: the transport is not initialized, nothing is fetched and nothing
\* is written to the store.
C36_EmptyReadFails ==
  [][/\ \A t \in Slots :
          (task[t].pc = "get" /\ StoreGet(task[t].storePath) = Null /\ task'[t] # task[t]) =>
            /\ task[t].hit
            /\ task'[t].pc = "failed"
            /\ task'[t].error = MsgReadCached(task[t].storePath)
            /\ task'[t].inits = 0 /\ task'[t].netCalls = 0 /\ task'[t].invocations = 0
            /\ ~task'[t].wrote
            /\ factoryCalls' = factoryCalls /\ verifiedFetch' = verifiedFetch
            /\ store' = store
     /\ (pf.pc = "get" /\ StoreGet(pf.storePath) = Null /\ pf'.pc # pf.pc) =>
            /\ pf'.pc = "failed"
            /\ pf'.error = MsgReadCached(pf.storePath)
            /\ pf'.netCalls = 0 /\ pf'.gatewayLog = pf.gatewayLog
            /\ ~pf'.wrote
            /\ store' = store]_vars

\* The first downloader has failed on an entry without bytes and holds no
\* transport instance.
C36_Witness ==
  /\ \E t \in Slots :
       /\ task[t].pc = "failed" /\ task[t].hit
       /\ task[t].error = MsgReadCached(task[t].storePath)
       /\ StoreGet(task[t].storePath) = Null
  /\ verifiedFetch = 0 /\ factoryCalls = 0

\* C37: when createVerifiedFetch rejects inside fetchFromIPFS, the call
\* fails with the downloader holding no transport instance and the store as
\* it was, nothing fetched; and a fetchFromIPFS that then misses the store
\* calls createVerifiedFetch again.
C37_FailedInitLeavesNoInstance ==
  [][\A t \in Slots :
       /\ (task[t].pc = "init" /\ task'[t].pc = "failed") =>
            /\ verifiedFetch' = 0
            /\ created' = created
            /\ store' = store
            /\ task'[t].error = MsgInitFailed
            /\ task'[t].netCalls = 0 /\ ~task'[t].wrote
       /\ (task[t].pc = "exists" /\ task'[t].pc # "exists" /\ ~StoreExists(task[t].storePath)
             /\ created = 0) =>
            /\ task'[t].pc = "init"
            /\ factoryCalls' = factoryCalls + 1]_vars

\* createVerifiedFetch is running for the second time, no instance having
\* been created by the first.
C37_Witness ==
  /\ factoryCalls = 2 /\ created = 0 /\ verifiedFetch = 0
  /\ calls = 2
  /\ \E t \in Slots : task[t].pc = "init" /\ task[t].inits = 1

\* C38: when every store call, transport call and timer gets an answer,
\* every fetchFromIPFS call of either downloader and every
\* downloadArtifactsForVariant call settles: none retries for ever.
C38_EveryCallSettles ==
  <>[](/\ \A t \in Slots : task[t].pc \notin Running
       /\ dl.state # "running"
       /\ pf.pc \in {"idle", "done", "failed"})

\* A download has been rejected by a kind-fetch that used every attempt,
\* while another kind-fetch of it is still waiting for an answer.
C38_Witness ==
  /\ dl.state = "failed"
  /\ maxRetries = 1
  /\ \E t \in Slots : task[t].wrapped /\ task[t].invocations = 2 /\ task[t].delays = 1
  /\ \E t \in Slots : task[t].pc \in Running

\* C39: withRetry invokes the operation at least once whatever the options
\* are, a maxRetries of 0 or below included, and what it throws is an error
\* that an invocation produced, never undefined.
C39_InvokedAtLeastOnce ==
  /\ rt.pc # "idle" => rt.invocations >= 1
  /\ rt.pc = "thrown" => rt.lastError # NoError

\* C40: withRetry waits only between a failed attempt and the next one: a
\* call takes at most maxRetries delays, none follows the last attempt or a
\* success, and the error after exhaustion is thrown with no wait before it.
C40_NoDelayAfterLastAttempt ==
  [][/\ rt'.delays <= (IF rt'.maxRetries > 0 THEN rt'.maxRetries ELSE 0)
     /\ rt'.delays > rt.delays =>
          /\ rt.pc = "fn" /\ rt'.pc = "delay"
          /\ rt.attempt < rt.maxRetries
     /\ (rt.pc = "delay" /\ rt'.pc # "delay") =>
          /\ rt'.pc = "fn" /\ rt'.invocations = rt.invocations + 1
     /\ (rt'.pc \in {"thrown", "returned"} /\ rt.pc # rt'.pc) =>
          /\ rt.pc \in {"fn", "idle"}
          /\ rt'.delays = rt.delays
          /\ rt'.delays < rt'.invocations \/ rt'.invocations = 0]_vars

\* Every attempt allowed by maxRetries = 1 has failed: two invocations, one
\* delay between them, and the error thrown.
C40_Witness ==
  /\ rt.pc = "thrown" /\ rt.maxRetries = 1
  /\ rt.invocations = 2 /\ rt.delays = 1 /\ rt.failures = 2
  /\ rt.lastError # NoError

====
